---- MODULE Spec2Model ----
(***************************************************************************)
(* Model of pallets/simple_oracle: the time-windowed OracleStorage         *)
(* (oracle_data::OracleStorage) and the pallet that wraps it.              *)
(*                                                                         *)
(* Two specifications share the module:                                    *)
(*   StorageSpec - an OracleStorage value driven directly through push,    *)
(*                 clean_outdated_data and iter_data with arbitrary `now`, *)
(*                 as oracle_data_test does;                               *)
(*   Spec        - the pallet: EventsStorage, the timestamp, the event     *)
(*                 record and the dispatchables push_data and              *)
(*                 clean_outdated_data plus the oracle_data() accessor.    *)
(***************************************************************************)
EXTENDS Integers, Sequences, FiniteSets, TLC

VARIABLES
    overflow_checks,  \* build profile: TRUE = `a - b` panics on underflow, FALSE = it wraps
    log,              \* StorageSpec: the Vec<OracleData<MOMENT>> inside an OracleStorage
    ret,              \* StorageSpec: the last call on `log`, its arguments and what it returned
    EventsStorage,    \* Spec: the StorageValue, <<>> = absent (None), <<l>> = Some(l)
    timestamp,        \* Spec: pallet_timestamp::Pallet::<T>::get()
    events,           \* Spec: the data of the Emitted events deposited so far
    out               \* Spec: the last dispatch, its arguments and what it returned

vars == <<overflow_checks, log, ret, EventsStorage, timestamp, events, out>>

storageVars == <<log, ret>>
palletVars == <<EventsStorage, timestamp, events, out>>

----------------------------------------------------------------------------
(* Bounds *)

\* MOMENT::MAX, the largest value of the unsigned timestamp type (u64::MAX scaled down)
MaxMoment == 6
\* OracleDataLifetime / the LIFETIME parameter (ConstU64<10> in oracle_data_test)
Lifetime == 3
\* most entries a log holds before the model stops pushing
MaxLen == 3
\* number of signed accounts
NumAccounts == 2
\* most events the event record holds before the model stops pushing
MaxEvents == 2

MomentModulus == MaxMoment + 1
Moment == 0 .. MaxMoment
\* payloads: the code never inspects them, two values tell positions apart
Data == {1, 2}
AccountId == 1 .. NumAccounts

\* Config::DefaultOracleAuthority; tests use signed(1) as a foreign account
DefaultOracleAuthority == 2

\* RuntimeOrigin: root, none, or signed(account)
Origin == {<<"root">>, <<"none">>} \cup {<<"signed", a>> : a \in AccountId}

----------------------------------------------------------------------------
(* oracle_data *)

\* struct OracleData { data, saved_at }
OracleData(d, t) == [data |-> d, saved_at |-> t]

\* MOMENT::sub on the unsigned type when it does not panic: wraps modulo MAX + 1
Sub(a, b) == (a - b) % MomentModulus

\* the subtraction a - b leaves the unsigned range
Underflows(a, b) == a < b

\* Outdated with gt in place of ge: an entry exactly Lifetime old stays live
Outdated_strict(now, d) == Sub(now, d.saved_at) > Lifetime

\* the closure |d| now.sub(d.saved_at).ge(&LIFETIME::get()) of iter_data and clean_outdated_data
Outdated(now, d) == Sub(now, d.saved_at) >= Lifetime

\* Iterator::skip_while: number of leading elements the predicate holds for
RECURSIVE SkippedCount(_, _)
SkippedCount(s, now) ==
    IF s = <<>> THEN 0
    ELSE IF Outdated(now, Head(s)) THEN 1 + SkippedCount(Tail(s), now)
    ELSE 0

\* indices (1-based) of the elements skip_while evaluates its predicate on:
\* the skipped prefix and the first element that is kept
IterProbes(self, now) ==
    LET k == SkippedCount(self, now)
    IN  1 .. (IF k < Len(self) THEN k + 1 ELSE k)

\* OracleStorage::iter_data, consumed to the end: the payloads after the skipped prefix,
\* or a panic when an evaluated subtraction underflows in a build with overflow checks
iter_data(self, now, checks) ==
    IF checks /\ \E i \in IterProbes(self, now) : Underflows(now, self[i].saved_at)
    THEN [res |-> "panic", view |-> <<>>]
    ELSE LET k == SkippedCount(self, now)
         IN  [res |-> "Ok",
              view |-> [i \in 1 .. (Len(self) - k) |-> self[i + k].data]]

\* BinarySearch whose loop body runs once: it stops after the first probe
BinarySearch_once(self, now, left, right) ==
    IF left < right
    THEN LET mid == left + ((right - left) \div 2)
         IN  IF Outdated(now, self[mid + 1]) THEN mid + 1 ELSE left
    ELSE left

\* slice::partition_point as the binary search of core::slice::binary_search_by:
\* left/right are 0-based, the result is the number of elements before the point
RECURSIVE BinarySearch(_, _, _, _)
BinarySearch(self, now, left, right) ==
    IF left < right
    THEN LET mid == left + ((right - left) \div 2)
         IN  IF Outdated(now, self[mid + 1])
             THEN BinarySearch(self, now, mid + 1, right)
             ELSE BinarySearch(self, now, left, mid)
    ELSE left

\* partition_point that is one short: the last outdated entry is left in place
partition_point_offByOne(self, now) ==
    LET point == BinarySearch(self, now, 0, Len(self))
    IN  IF point > 0 THEN point - 1 ELSE 0

partition_point(self, now) == BinarySearch(self, now, 0, Len(self))

\* indices (1-based) of the elements the binary search evaluates its predicate on
RECURSIVE SearchProbes(_, _, _, _)
SearchProbes(self, now, left, right) ==
    IF left < right
    THEN LET mid == left + ((right - left) \div 2)
         IN  {mid + 1} \cup
             (IF Outdated(now, self[mid + 1])
              THEN SearchProbes(self, now, mid + 1, right)
              ELSE SearchProbes(self, now, left, mid))
    ELSE {}

\* Historical without the comparison: no call is ever refused
Historical_unchecked(self, now) == FALSE

\* Historical with ge in place of gt: a `now` equal to the last saved_at is refused too
Historical_ge(self, now) == Len(self) > 0 /\ self[Len(self)].saved_at >= now

\* Historical that looks at the first entry instead of the last
Historical_first(self, now) == Len(self) > 0 /\ self[1].saved_at > now

\* the guard of clean_outdated_data: the last entry is newer than `now`
Historical(self, now) == Len(self) > 0 /\ self[Len(self)].saved_at > now

\* clean_outdated_data that drains before it looks at the last entry
clean_outdated_data_drainFirst(self, now, checks) ==
    LET point == partition_point(self, now)
        drained == SubSeq(self, point + 1, Len(self))
    IN  IF Historical(self, now)
        THEN [res |-> "AttemptToInsertHistoricalData", self |-> drained]
        ELSE [res |-> "Ok", self |-> drained]

\* clean_outdated_data that computes the point and never drains
clean_outdated_data_noDrain(self, now, checks) ==
    IF Historical(self, now)
    THEN [res |-> "AttemptToInsertHistoricalData", self |-> self]
    ELSE [res |-> "Ok", self |-> self]

\* OracleStorage::clean_outdated_data: the result and the vector afterwards
clean_outdated_data(self, now, checks) ==
    IF Historical(self, now)
    THEN [res |-> "AttemptToInsertHistoricalData", self |-> self]
    ELSE IF checks /\ \E i \in SearchProbes(self, now, 0, Len(self)) :
                           Underflows(now, self[i].saved_at)
    THEN [res |-> "panic", self |-> self]
    ELSE LET point == partition_point(self, now)
         IN  [res |-> "Ok", self |-> SubSeq(self, point + 1, Len(self))]

\* push that drops the `?`: the entry is appended whatever clean_outdated_data returned
push_always(self, now, data, checks) ==
    LET c == clean_outdated_data(self, now, checks)
    IN  [res |-> c.res, self |-> Append(c.self, OracleData(data, now))]

\* OracleStorage::push: clean_outdated_data(now)? and then Vec::push
push(self, now, data, checks) ==
    LET c == clean_outdated_data(self, now, checks)
    IN  IF c.res = "Ok"
        THEN [res |-> "Ok", self |-> Append(c.self, OracleData(data, now))]
        ELSE c

----------------------------------------------------------------------------
(* the pallet *)

\* no call made yet; `twice` is the result of the preceding call when that call was the
\* same clean_outdated_data(now), "no" otherwise
NoCall == [op |-> "none", now |-> 0, data |-> 0, pre |-> <<>>, res |-> "Ok", view |-> <<>>,
           twice |-> "no"]

NoDispatch == [op |-> "none", origin |-> <<"none">>, data |-> 0, res |-> "Ok",
               view |-> <<>>, preStorage |-> <<>>, preEvents |-> <<>>]

\* genesis of the test externalities: no EventsStorage value, timestamp 0, no events
PalletInit ==
    /\ EventsStorage = <<>>
    /\ timestamp = 0
    /\ events = <<>>
    /\ out = NoDispatch

\* frame_system::ensure_signed: the account of a signed origin, BadOrigin otherwise
ensure_signed(origin) ==
    IF origin[1] = "signed" THEN [res |-> "Ok", who |-> origin[2]]
    ELSE [res |-> "BadOrigin", who |-> 0]

\* Option::get_or_insert_with(OracleStorage::default)
get_or_insert_with(storage) == IF storage = <<>> THEN <<>> ELSE storage[1]

\* StorageValue::try_mutate: the closure's value is written back only when it returns Ok
try_mutate(storage, r) == IF r.res = "Ok" THEN <<r.self>> ELSE storage

\* with_storage_layer that never rolls back: what was written stays written
with_storage_layer_noRollback(pre, post, res) == post

\* the storage layer every dispatchable runs in: an Err return undoes its storage changes
with_storage_layer(pre, post, res) == IF res = "Ok" THEN post ELSE pre

\* deposit_event that records the event at the front of the record
deposit_event_front(evs, data) == <<data>> \o evs

\* Pallet::deposit_event(Event::Emitted { data }); the record is that of a block after
\* genesis, where frame_system keeps deposited events
deposit_event(evs, data) == Append(evs, data)

\* push_data without the comparison against DefaultOracleAuthority
push_data_anySigned(origin, data) ==
    LET signed == ensure_signed(origin)
        deposited == deposit_event(events, data)
        r == push(get_or_insert_with(EventsStorage), timestamp, data, overflow_checks)
    IN  IF signed.res # "Ok"
        THEN [res |-> signed.res, storage |-> EventsStorage, events |-> events]
        ELSE [res |-> r.res,
              storage |-> with_storage_layer(EventsStorage,
                                             try_mutate(EventsStorage, r), r.res),
              events |-> with_storage_layer(events, deposited, r.res)]

\* Pallet::push_data as a function of the state: result, storage and events afterwards
push_data(origin, data) ==
    LET signed == ensure_signed(origin)
    IN  IF signed.res # "Ok"
        THEN [res |-> signed.res, storage |-> EventsStorage, events |-> events]
        ELSE IF signed.who = DefaultOracleAuthority
        THEN LET deposited == deposit_event(events, data)
                 r == push(get_or_insert_with(EventsStorage), timestamp, data,
                           overflow_checks)
             IN  [res |-> r.res,
                  storage |-> with_storage_layer(EventsStorage,
                                                 try_mutate(EventsStorage, r), r.res),
                  events |-> with_storage_layer(events, deposited, r.res)]
        ELSE [res |-> "WrongAuthority", storage |-> EventsStorage, events |-> events]

\* dispatch of push_data(origin, data)
PushData(origin, data) ==
    LET r == push_data(origin, data)
    IN  /\ Len(events) < MaxEvents
        /\ r.storage # <<>> => Len(r.storage[1]) <= MaxLen
        /\ EventsStorage' = r.storage
        /\ events' = r.events
        /\ out' = [op |-> "push_data", origin |-> origin, data |-> data, res |-> r.res,
                   view |-> <<>>, preStorage |-> EventsStorage, preEvents |-> events]
        /\ UNCHANGED <<overflow_checks, timestamp, storageVars>>

\* clean_outdated_data_call that asks for a signed origin first
clean_outdated_data_call_signedOnly(origin) ==
    LET signed == ensure_signed(origin)
        r == clean_outdated_data(get_or_insert_with(EventsStorage), timestamp,
                                 overflow_checks)
    IN  IF signed.res # "Ok"
        THEN [res |-> signed.res, storage |-> EventsStorage]
        ELSE [res |-> r.res,
              storage |-> with_storage_layer(EventsStorage,
                                             try_mutate(EventsStorage, r), r.res)]

\* Pallet::clean_outdated_data as a function of the state: the origin is not inspected
clean_outdated_data_call(origin) ==
    LET r == clean_outdated_data(get_or_insert_with(EventsStorage), timestamp,
                                 overflow_checks)
    IN  [res |-> r.res,
         storage |-> with_storage_layer(EventsStorage,
                                        try_mutate(EventsStorage, r), r.res)]

\* dispatch of clean_outdated_data(origin)
CleanOutdatedData(origin) ==
    LET r == clean_outdated_data_call(origin)
    IN  /\ EventsStorage' = r.storage
        /\ out' = [op |-> "clean_outdated_data", origin |-> origin, data |-> 0,
                   res |-> r.res, view |-> <<>>, preStorage |-> EventsStorage,
                   preEvents |-> events]
        /\ UNCHANGED <<overflow_checks, timestamp, events, storageVars>>

\* oracle_data with unwrap_or_default in place of `?`: an absent value reads as Some([])
oracle_data_unwrapOrDefault(storage, now, checks) ==
    LET r == iter_data(get_or_insert_with(storage), now, checks)
    IN  IF r.res = "Ok" THEN [res |-> "Ok", view |-> <<r.view>>] ELSE r

\* Pallet::oracle_data(): None when no value is stored, else the collected iter_data
oracle_data(storage, now, checks) ==
    IF storage = <<>> THEN [res |-> "Ok", view |-> <<>>]
    ELSE LET r == iter_data(storage[1], now, checks)
         IN  IF r.res = "Ok" THEN [res |-> "Ok", view |-> <<r.view>>] ELSE r

\* a call of the accessor oracle_data()
OracleDataCall ==
    LET r == oracle_data(EventsStorage, timestamp, overflow_checks)
    IN  /\ out' = [op |-> "oracle_data", origin |-> <<"none">>, data |-> 0, res |-> r.res,
                   view |-> r.view, preStorage |-> EventsStorage, preEvents |-> events]
        /\ UNCHANGED <<overflow_checks, EventsStorage, timestamp, events, storageVars>>

\* Timestamp::set_timestamp(moment)
SetTimestamp(moment) ==
    /\ timestamp' = moment
    /\ out' = [op |-> "set_timestamp", origin |-> <<"none">>, data |-> 0, res |-> "Ok",
               view |-> <<>>, preStorage |-> EventsStorage, preEvents |-> events]
    /\ UNCHANGED <<overflow_checks, EventsStorage, events, storageVars>>

Init ==
    /\ overflow_checks \in BOOLEAN
    /\ log = <<>>
    /\ ret = NoCall
    /\ PalletInit

Next ==
    \/ \E origin \in Origin, data \in Data : PushData(origin, data)
    \/ \E origin \in Origin : CleanOutdatedData(origin)
    \/ OracleDataCall
    \/ \E moment \in Moment : SetTimestamp(moment)

Spec == Init /\ [][Next]_vars

----------------------------------------------------------------------------
(* StorageSpec: an OracleStorage driven directly *)

\* storage.push::<LIFETIME>(now, data)
StoragePush(now, data) ==
    LET r == push(log, now, data, overflow_checks)
    IN  /\ Len(r.self) <= MaxLen
        /\ log' = r.self
        /\ ret' = [op |-> "push", now |-> now, data |-> data, pre |-> log,
                   res |-> r.res, view |-> <<>>, twice |-> "no"]
        /\ UNCHANGED <<overflow_checks, palletVars>>

\* storage.clean_outdated_data::<LIFETIME>(now)
StorageClean(now) ==
    LET r == clean_outdated_data(log, now, overflow_checks)
    IN  /\ log' = r.self
        /\ ret' = [op |-> "clean", now |-> now, data |-> 0, pre |-> log,
                   res |-> r.res, view |-> <<>>,
                   twice |-> IF ret.op = "clean" /\ ret.now = now THEN ret.res ELSE "no"]
        /\ UNCHANGED <<overflow_checks, palletVars>>

\* iter_data that drops the entries it skips
StorageIter_draining(now) ==
    LET r == iter_data(log, now, overflow_checks)
    IN  /\ log' = SubSeq(log, SkippedCount(log, now) + 1, Len(log))
        /\ ret' = [op |-> "iter", now |-> now, data |-> 0, pre |-> log,
                   res |-> r.res, view |-> r.view, twice |-> "no"]
        /\ UNCHANGED <<overflow_checks, palletVars>>

\* storage.iter_data::<LIFETIME>(now).collect()
StorageIter(now) ==
    LET r == iter_data(log, now, overflow_checks)
    IN  /\ log' = log
        /\ ret' = [op |-> "iter", now |-> now, data |-> 0, pre |-> log,
                   res |-> r.res, view |-> r.view, twice |-> "no"]
        /\ UNCHANGED <<overflow_checks, palletVars>>

\* OracleStorage::default()
StorageInit ==
    /\ overflow_checks \in BOOLEAN
    /\ log = <<>>
    /\ ret = NoCall
    /\ PalletInit

StorageNext ==
    \/ \E now \in Moment, data \in Data : StoragePush(now, data)
    \/ \E now \in Moment : StorageClean(now)
    \/ \E now \in Moment : StorageIter(now)

StorageSpec == StorageInit /\ [][StorageNext]_vars

----------------------------------------------------------------------------
(* Vocabulary of the properties, in unbounded integer arithmetic *)

\* the recorded_at values never decrease from front to back
IsSorted(l) == \A i \in 1 .. (Len(l) - 1) : l[i].saved_at <= l[i + 1].saved_at

\* the entry is younger than the lifetime at `now`
IsLive(now, e) == now - e.saved_at < Lifetime

\* the entries of l that are live at `now`, in order
LiveAt(l, now) == SelectSeq(l, LAMBDA e : IsLive(now, e))

\* the payloads of l, in order
Payloads(l) == [i \in 1 .. Len(l) |-> l[i].data]

\* the last stored entry was recorded strictly after `now`
LastNewer(l, now) == l # <<>> /\ l[Len(l)].saved_at > now

----------------------------------------------------------------------------
(* Properties of OracleStorage, checked under StorageSpec *)

\* C1: after any sequence of push and clean_outdated_data calls, successful or not,
\* the stored saved_at values are non-decreasing from front to back.
C1_MonotonicInsertion == IsSorted(log)

\* a failed call has just returned on a log holding entries of different times
C1_Witness ==
    /\ ret.res = "AttemptToInsertHistoricalData"
    /\ Len(log) >= 2
    /\ log[1].saved_at < log[Len(log)].saved_at

\* C2: push(now, payload) on a log whose last entry is newer than now returns
\* AttemptToInsertHistoricalData and leaves the stored sequence exactly as it was.
C2_StalePushRejected ==
    (ret.op = "push" /\ LastNewer(ret.pre, ret.now))
        => (ret.res = "AttemptToInsertHistoricalData" /\ log = ret.pre)

\* a stale push has just been made on a log of several entries
C2_Witness ==
    /\ ret.op = "push"
    /\ LastNewer(ret.pre, ret.now)
    /\ Len(ret.pre) >= 2
    /\ log = ret.pre

\* C3: clean_outdated_data(now) on a log whose last entry is newer than now fails with
\* AttemptToInsertHistoricalData and leaves the log unchanged, also when the log holds
\* entries whose age, as the unsigned type computes it, has reached the lifetime.
C3_StaleCleanRejected ==
    (ret.op = "clean" /\ LastNewer(ret.pre, ret.now))
        => (ret.res = "AttemptToInsertHistoricalData" /\ log = ret.pre)

\* a stale clean has just been made on a log with an entry the age closure calls outdated
C3_Witness ==
    /\ ret.op = "clean"
    /\ LastNewer(ret.pre, ret.now)
    /\ \E i \in 1 .. Len(ret.pre) : Outdated(ret.now, ret.pre[i])
    /\ log = ret.pre

\* C4: after clean_outdated_data(now) returns Ok the log is exactly the entries that had
\* now - saved_at < Lifetime before the call, in their original order.
C4_CleanKeepsExactlyLive ==
    (ret.op = "clean" /\ ret.res = "Ok") => log = LiveAt(ret.pre, ret.now)

\* a clean has just removed some entries and kept others
C4_Witness ==
    /\ ret.op = "clean"
    /\ ret.res = "Ok"
    /\ log # <<>>
    /\ Len(log) < Len(ret.pre)

\* C5: a successful push(now, payload) leaves the entries that were live at now, in order,
\* followed by the new entry {payload, now}.
C5_PushAppendsAfterLive ==
    (ret.op = "push" /\ ret.res = "Ok")
        => log = Append(LiveAt(ret.pre, ret.now), OracleData(ret.data, ret.now))

\* a push has just removed some entries, kept others and appended its own
C5_Witness ==
    /\ ret.op = "push"
    /\ ret.res = "Ok"
    /\ Len(log) >= 2
    /\ Len(log) <= Len(ret.pre)

\* C6: for every reachable log and every now, iter_data(now) yields exactly the payloads
\* of the entries with now - saved_at < Lifetime, in stored order.
C6_ExpiryBoundary ==
    ret.op = "iter" => (ret.res = "Ok" /\ ret.view = Payloads(LiveAt(ret.pre, ret.now)))

\* C7: for every reachable log and every now, iter_data(now) yields the payloads of the
\* entries that remain after clean_outdated_data(now) on a copy of the log.
C7_ReadEvictEquivalence ==
    ret.op = "iter"
        => /\ ret.res = "Ok"
           /\ ret.view = Payloads(clean_outdated_data(ret.pre, ret.now, overflow_checks).self)

\* C8: clean_outdated_data(now) called twice in a row with the same now: the second call
\* leaves the log as the first left it and returns what the first returned.
C8_EvictionIdempotent ==
    (ret.op = "clean" /\ ret.twice # "no") => (log = ret.pre /\ ret.res = ret.twice)

\* the second of two equal cleans has just returned Ok on a log that is not empty
C8_Witness ==
    /\ ret.op = "clean"
    /\ ret.twice = "Ok"
    /\ log # <<>>
    /\ \E i \in 1 .. Len(log) : log[i].saved_at < ret.now

\* C9: iter_data(now) never fails, for every reachable log and every now, and yields
\* nothing when the log is empty or every entry has expired.
C9_IterNeverFails ==
    ret.op = "iter"
        => /\ ret.res = "Ok"
           /\ LiveAt(ret.pre, ret.now) = <<>> => ret.view = <<>>

\* C14: AttemptToInsertHistoricalData is the only failure of push and
\* clean_outdated_data, and it occurs exactly when the log is non-empty and now is
\* strictly less than the last saved_at.
C14_OnlyHistoricalFails ==
    ret.op \in {"push", "clean"}
        => /\ ret.res \in {"Ok", "AttemptToInsertHistoricalData"}
           /\ ret.res = "AttemptToInsertHistoricalData" <=> LastNewer(ret.pre, ret.now)

\* a push has just succeeded with now equal to the last saved_at of a log that is not empty
C14_Witness ==
    /\ ret.op = "push"
    /\ ret.res = "Ok"
    /\ ret.pre # <<>>
    /\ ret.pre[Len(ret.pre)].saved_at = ret.now

\* C15: iter_data(now) leaves the log unchanged, expired entries included; the log
\* changes only through a successful clean_outdated_data or push.
C15_IterLeavesLog ==
    /\ ret.op = "iter" => log = ret.pre
    /\ log # ret.pre => (ret.op \in {"push", "clean"} /\ ret.res = "Ok")

\* an iter_data has just skipped expired entries that are still stored
C15_Witness ==
    /\ ret.op = "iter"
    /\ ret.res = "Ok"
    /\ Len(ret.view) < Len(log)
    /\ \E i \in 1 .. Len(log) : ret.now - log[i].saved_at >= Lifetime

\* C17: all stored entries lie within a window shorter than the lifetime:
\* last.saved_at - first.saved_at < Lifetime.
C17_BoundedWindow ==
    log # <<>> => log[Len(log)].saved_at - log[1].saved_at < Lifetime

\* the log spans the widest window the lifetime allows
C17_Witness ==
    /\ Len(log) >= 2
    /\ log[Len(log)].saved_at - log[1].saved_at = Lifetime - 1
    /\ ret.op = "push"

\* C18: whenever clean_outdated_data(now), alone or inside push, passes its staleness
\* check, every subtraction now - saved_at the partition-point search evaluates has
\* now >= saved_at, and the call does not fault.
C18_NoUnderflowInEviction ==
    (ret.op \in {"push", "clean"} /\ ret.res # "AttemptToInsertHistoricalData")
        => /\ \A i \in SearchProbes(ret.pre, ret.now, 0, Len(ret.pre)) :
                  ret.now >= ret.pre[i].saved_at
           /\ ret.res # "panic"

\* a clean has just searched a log of several entries and removed some of them
C18_Witness ==
    /\ ret.op = "clean"
    /\ ret.res = "Ok"
    /\ Cardinality(SearchProbes(ret.pre, ret.now, 0, Len(ret.pre))) >= 2
    /\ Len(log) < Len(ret.pre)

----------------------------------------------------------------------------
(* Properties of the pallet, checked under Spec *)

\* C10: push_data from any origin other than signed(DefaultOracleAuthority) fails with
\* WrongAuthority or BadOrigin and leaves EventsStorage and the event record as they were.
C10_ForeignOriginRejected ==
    (out.op = "push_data" /\ out.origin # <<"signed", DefaultOracleAuthority>>)
        => /\ out.res \in {"WrongAuthority", "BadOrigin"}
           /\ EventsStorage = out.preStorage
           /\ events = out.preEvents

\* a foreign signed account has just been refused while a log and events exist
C10_Witness ==
    /\ out.op = "push_data"
    /\ out.origin[1] = "signed"
    /\ out.origin # <<"signed", DefaultOracleAuthority>>
    /\ out.res = "WrongAuthority"
    /\ EventsStorage # <<>>
    /\ events # <<>>

\* the signed origin of Config::DefaultOracleAuthority
Authority == <<"signed", DefaultOracleAuthority>>

\* C11: a push_data(data) by the DefaultOracleAuthority that succeeds makes data the last
\* element of oracle_data() read at the same timestamp, and Emitted{data} is the last
\* deposited event.
C11_PushedDataIsLast ==
    (out.op = "push_data" /\ out.origin = Authority /\ out.res = "Ok")
        => LET read == oracle_data(EventsStorage, timestamp, overflow_checks)
           IN  /\ read.res = "Ok"
               /\ read.view # <<>>
               /\ read.view[1] # <<>>
               /\ read.view[1][Len(read.view[1])] = out.data
               /\ events # <<>>
               /\ events[Len(events)] = out.data

\* the authority has just pushed a payload behind a different live one, after other events
C11_Witness ==
    /\ out.op = "push_data"
    /\ out.origin = Authority
    /\ out.res = "Ok"
    /\ Len(EventsStorage[1]) >= 2
    /\ EventsStorage[1][1].data # out.data
    /\ Len(events) >= 2
    /\ events[1] # out.data

\* C12: the stored log is absent until the first successful push_data: nothing else,
\* clean_outdated_data included, turns an absent log into a stored one, and while it is
\* absent oracle_data() returns None.
C12_AbsentUntilFirstInsertion ==
    /\ (out.preStorage = <<>> /\ EventsStorage # <<>>)
           => (out.op = "push_data" /\ out.res = "Ok")
    /\ (out.op = "oracle_data" /\ EventsStorage = <<>>)
           => (out.res = "Ok" /\ out.view = <<>>)

\* C12 as amended: the stored log is absent until the first successful push_data or
\* successful clean_outdated_data; a clean_outdated_data on the absent log stores the
\* empty log, rejected calls leave it absent, and while it is absent oracle_data()
\* returns None.
C12_AbsentUntilFirstPushOrClean ==
    /\ (out.preStorage = <<>> /\ EventsStorage # <<>>)
           => /\ out.res = "Ok"
              /\ \/ out.op = "push_data" /\ out.origin = Authority
                 \/ out.op = "clean_outdated_data" /\ EventsStorage = << <<>> >>
    /\ (out.op = "oracle_data" /\ EventsStorage = <<>>)
           => (out.res = "Ok" /\ out.view = <<>>)
    /\ (out.op = "oracle_data" /\ EventsStorage = << <<>> >>)
           => (out.res = "Ok" /\ out.view = << <<>> >>)

\* a clean_outdated_data has just stored the empty log where none was stored
C12_Witness ==
    /\ out.op = "clean_outdated_data"
    /\ out.res = "Ok"
    /\ out.preStorage = <<>>
    /\ EventsStorage = << <<>> >>

\* C13: the outcome of the clean_outdated_data dispatchable and the log it leaves are the
\* same for every origin: they depend on the stored log and the timestamp only.
C13_CleanIgnoresOrigin ==
    /\ \A o \in Origin : clean_outdated_data_call(o) = clean_outdated_data_call(<<"none">>)
    /\ out.op = "clean_outdated_data"
           => LET r == clean_outdated_data(get_or_insert_with(out.preStorage), timestamp,
                                           overflow_checks)
              IN  /\ out.res = r.res
                  /\ EventsStorage = IF r.res = "Ok" THEN <<r.self>> ELSE out.preStorage

\* an unsigned origin has just cleaned expired entries out of the stored log
C13_Witness ==
    /\ out.op = "clean_outdated_data"
    /\ out.origin \in {<<"none">>, <<"root">>}
    /\ out.res = "Ok"
    /\ out.preStorage # <<>>
    /\ Len(EventsStorage[1]) < Len(out.preStorage[1])

\* C16: an Emitted event is observable only for a successful push: a push_data that
\* returns an error leaves the event record as it was, and the record only ever grows
\* by the data of a successful push_data.
C16_EventOnlyOnSuccess ==
    /\ (out.op = "push_data" /\ out.res # "Ok") => events = out.preEvents
    /\ events # out.preEvents
           => /\ out.op = "push_data"
              /\ out.res = "Ok"
              /\ events = Append(out.preEvents, out.data)

\* the authority's push_data has just been refused as historical, after earlier events
C16_Witness ==
    /\ out.op = "push_data"
    /\ out.origin = Authority
    /\ out.res = "AttemptToInsertHistoricalData"
    /\ events # <<>>
    /\ events = out.preEvents

====
